---- MODULE Spec2Model ----
(***************************************************************************)
(* dregsy: the scheduler (Sync.SyncFromConfig), the task execution         *)
(* (Sync.SyncTask) and the image pipeline (Sync.Sync) of sync/sync.go,     *)
(* run against a Docker daemon, a source registry and a target registry.   *)
(***************************************************************************)
EXTENDS Integers, Sequences, FiniteSets, TLC

VARIABLES
    conf,      \* conf.Tasks: the configured tasks, in configuration order
    pc,        \* position of SyncFromConfig (or "ext": Sync called directly)
    i,         \* index of the range loop SyncFromConfig is in
    ticking,   \* local variable ticking of SyncFromConfig
    cur,       \* task handed to the SyncTask call in progress (0: none)
    mi,        \* index of the next Mapping of that SyncTask call
    retpc,     \* where the SyncTask call in progress returns to
    unit,      \* per task: its timer unit ("none", "idle", "sending")
    sendq,     \* timer units blocked in a send on channel c
    buf,       \* buffer of channel c
    running,   \* SyncTask executions in progress
    runs,      \* per task: SyncTask executions started: 0, 1, or 2 for more
    order,     \* tasks in the order of their first SyncTask execution
    ticksIn,   \* ticks of the running task's own timer since its run started
    auth,      \* per task: Source.Auth and Target.Auth
    pingOk,    \* outcome of the initial ping
    srcReg,    \* source registry: name -> content identifier
    trgReg,    \* target registry: name -> content identifier
    local,     \* image store of the Docker daemon: name -> content identifier
    faults,    \* registry client calls that currently fail
    last,      \* record of the latest Sync invocation
    quiet,     \* no change of the environment since the latest invocation
    envSteps,  \* number of environment changes so far
    runLog,    \* the Sync invocations of the SyncTask call in progress
    steps      \* the steps of its latest Mapping

vars == <<conf, pc, i, ticking, cur, mi, retpc, unit, sendq, buf, running,
          runs, order, ticksIn, auth, pingOk, srcReg, trgReg, local, faults,
          last, quiet, envSteps, runLog, steps>>

schedVars == <<conf, pc, i, ticking, cur, mi, retpc, unit, sendq, buf,
               running, runs, order, ticksIn, pingOk>>

(***************************************************************************)
(* Bounds of the model.                                                    *)
(***************************************************************************)
MaxTicks == 4     \* ticksIn saturates here
MaxFaults == 1    \* failing client calls at a time
MaxEnv == 1       \* environment changes in one behaviour
MaxTok == 1       \* credentials a refresh can issue: 1..MaxTok

\* content identifiers of images; NoID: no image under that name
NoID == "none"
IDNames == <<"i1", "i2">>
IDs == {IDNames[k] : k \in 1..Len(IDNames)}
TagNames == <<"t1", "t2">>
Tags == {TagNames[k] : k \in 1..Len(TagNames)}

(***************************************************************************)
(* References.  A reference is the sequence of its parts:                  *)
(* <<repo, "/", path>>, and with a tag <<repo, "/", path, ":", tag>>.      *)
(***************************************************************************)
MkRef(repo, path) == <<repo, "/", path>>

\* fmt.Sprintf("%s:%s", ref, tag)
Tagged(ref, tag) == ref \o <<":", tag>>

\* docker.SplitRef: (repo, path, tag) of a reference
SplitRef(ref) ==
    [repo |-> ref[1],
     path |-> ref[3],
     tag  |-> IF Len(ref) >= 5 THEN ref[5] ELSE ""]

\* docker.Image.Ref: Repo/Path
ImageRef(img) == <<img.Repo, "/", img.Path>>

SrcRefs == {MkRef("src", "a"), MkRef("src", "b")}
TrgRefs == {MkRef("trg", "a"), MkRef("trg", "b")}
SrcNames == {Tagged(r, t) : r \in SrcRefs, t \in Tags}
TrgNames == {Tagged(r, t) : r \in TrgRefs, t \in Tags}
Names == SrcNames \cup TrgNames

\* a set of integers as the ascending sequence of its elements
RECURSIVE SetToSeq(_)
SetToSeq(S) ==
    IF S = {} THEN <<>>
    ELSE LET m == CHOOSE x \in S : \A y \in S : x <= y
         IN <<m>> \o SetToSeq(S \ {m})

\* F applied to the value of v, v evaluated once
Bind(v, F(_)) == CHOOSE r \in {F(x) : x \in {v}} : TRUE

(***************************************************************************)
(* The registry client (package docker).  A world w is the daemon's image  *)
(* store, the target registry and the trace of the client calls made; env  *)
(* is the source registry and the calls that fail.                         *)
(***************************************************************************)
Call(op, ref, all, a, id, ok) ==
    [op |-> op, ref |-> ref, all |-> all, auth |-> a, id |-> id, ok |-> ok]

Logged(w, c) == [w EXCEPT !.calls = Append(w.calls, c)]

Fails(env, op, ref) == <<op, ref>> \in env.faults

Upstream(env, n) == IF n \in DOMAIN env.src THEN env.src[n] ELSE NoID

\* the names of the image store a reference denotes
NamesOf(ref) ==
    IF Len(ref) >= 5 THEN {ref} \cap Names
    ELSE {n \in Names : n[1] = ref[1] /\ n[3] = ref[3]}

\* docker.Client.PullImage(ref, allTags, auth, verbose)
PullImage(w, env, ref, allTags, a) ==
    LET wanted == IF allTags THEN {n \in Names : n[1] = ref[1] /\ n[3] = ref[3]}
                  ELSE NamesOf(ref)
        absent == ~allTags /\ \A n \in wanted : Upstream(env, n) = NoID
        bad    == Fails(env, "pull", ref) \/ absent
        store  == [n \in Names |->
                     IF n \in wanted /\ Upstream(env, n) # NoID
                     THEN Upstream(env, n) ELSE w.local[n]]
    IN  [w   |-> Logged(IF bad THEN w ELSE [w EXCEPT !.local = store],
                        Call("pull", ref, allTags, a, NoID, ~bad)),
         err |-> bad]

\* the tags of TagNames, in order, under which the store holds id at ref
TagsAt(w, ref, id) ==
    LET Held(t) == Tagged(<<ref[1], "/", ref[3]>>, t) \in NamesOf(ref)
                   /\ w.local[Tagged(<<ref[1], "/", ref[3]>>, t)] = id
    IN  SelectSeq(TagNames, Held)

RECURSIVE ImagesOf(_, _, _)
ImagesOf(w, ref, ids) ==
    IF ids = <<>> THEN <<>>
    ELSE LET ts == TagsAt(w, ref, Head(ids))
         IN (IF ts = <<>> THEN <<>>
             ELSE <<[ID |-> Head(ids), Repo |-> ref[1], Path |-> ref[3],
                     Tags |-> ts]>>)
            \o ImagesOf(w, ref, Tail(ids))

\* docker.Client.ListImages(ref)
ListImages(w, env, ref) ==
    LET bad == Fails(env, "list", ref)
    IN  [w      |-> Logged(w, Call("list", ref, FALSE, 0, NoID, ~bad)),
         images |-> IF bad THEN <<>> ELSE ImagesOf(w, ref, IDNames),
         err    |-> bad]

\* docker.Client.TagImage(id, name)
TagImage(w, env, id, name) ==
    LET bad   == Fails(env, "tag", name)
        store == [n \in Names |-> IF n = name THEN id ELSE w.local[n]]
    IN  [w   |-> Logged(IF bad THEN w ELSE [w EXCEPT !.local = store],
                        Call("tag", name, FALSE, 0, id, ~bad)),
         err |-> bad]

\* docker.Client.PushImage(ref, allTags, auth, verbose)
PushImage(w, env, ref, allTags, a) ==
    LET sent == IF allTags THEN {n \in Names : n[1] = ref[1] /\ n[3] = ref[3]}
                ELSE NamesOf(ref)
        bad  == Fails(env, "push", ref)
        reg  == [n \in TrgNames |->
                   IF n \in sent /\ w.local[n] # NoID
                   THEN w.local[n] ELSE w.trg[n]]
    IN  [w   |-> Logged(IF bad THEN w ELSE [w EXCEPT !.trg = reg],
                        Call("push", ref, allTags, a, NoID, ~bad)),
         err |-> bad]

(***************************************************************************)
(* Sync.pull, Sync.list, Sync.tag, Sync.push and Sync.Sync                 *)
(***************************************************************************)
pull(w, env, ref, a, allTags) == PullImage(w, env, ref, allTags, a)

list(w, env, ref) == ListImages(w, env, ref)

push(w, env, ref, a) == PushImage(w, env, ref, TRUE, a)

\* tagTags refusing to set a tag the store already holds
RECURSIVE tagTagsNoOverwrite(_, _, _, _, _)
tagTagsNoOverwrite(w, env, id, taggedRef, ts) ==
    IF ts = <<>> THEN [w |-> w, err |-> FALSE]
    ELSE IF w.local[Tagged(taggedRef, Head(ts))] # NoID
         THEN [w |-> w, err |-> TRUE]
         ELSE Bind(TagImage(w, env, id, Tagged(taggedRef, Head(ts))),
                   LAMBDA r :
                     IF r.err THEN r
                     ELSE tagTagsNoOverwrite(r.w, env, id, taggedRef,
                                             Tail(ts)))

\* the inner loop of Sync.tag: one TagImage per tag of img, to the first error
RECURSIVE tagTags(_, _, _, _, _)
tagTags(w, env, id, taggedRef, ts) ==
    IF ts = <<>> THEN [w |-> w, err |-> FALSE]
    ELSE Bind(TagImage(w, env, id, Tagged(taggedRef, Head(ts))),
              LAMBDA r :
                IF r.err THEN r
                ELSE tagTags(r.w, env, id, taggedRef, Tail(ts)))

\* tagImages setting the tags on the reference of the source image
RECURSIVE tagImagesSourceRef(_, _, _, _, _)
tagImagesSourceRef(w, env, images, target, done) ==
    IF images = <<>> THEN [w |-> w, err |-> FALSE, tagged |-> done]
    ELSE LET img    == Head(images)
             tagged == [ID |-> img.ID, Repo |-> target.repo,
                        Path |-> target.path, Tags |-> img.Tags]
         IN Bind(tagTags(w, env, img.ID, ImageRef(img), img.Tags),
                 LAMBDA r :
                   IF r.err THEN [w |-> r.w, err |-> TRUE, tagged |-> <<>>]
                   ELSE tagImagesSourceRef(r.w, env, Tail(images), target,
                                           Append(done, tagged)))

\* the outer loop of Sync.tag: a new Image value per image, then its tags
RECURSIVE tagImages(_, _, _, _, _)
tagImages(w, env, images, target, done) ==
    IF images = <<>> THEN [w |-> w, err |-> FALSE, tagged |-> done]
    ELSE LET img    == Head(images)
             tagged == [ID |-> img.ID, Repo |-> target.repo,
                        Path |-> target.path, Tags |-> img.Tags]
         IN Bind(tagTags(w, env, img.ID, ImageRef(tagged), img.Tags),
                 LAMBDA r :
                   IF r.err THEN [w |-> r.w, err |-> TRUE, tagged |-> <<>>]
                   ELSE tagImages(r.w, env, Tail(images), target,
                                  Append(done, tagged)))

\* Sync.tag; images: the Image values the caller passed, as the call left them
tag(w, env, images, targetRef) ==
    Bind(tagImages(w, env, images, SplitRef(targetRef), <<>>),
         LAMBDA r : [w |-> r.w, err |-> r.err, tagged |-> r.tagged,
                     images |-> images])

\* pullTags pulling the remaining tags after a failed pull
RECURSIVE pullTagsContinue(_, _, _, _, _)
pullTagsContinue(w, env, srcRef, srcAuth, tags) ==
    IF tags = <<>> THEN [w |-> w, err |-> FALSE]
    ELSE Bind(pull(w, env, Tagged(srcRef, Head(tags)), srcAuth, FALSE),
              LAMBDA r :
                Bind(pullTagsContinue(r.w, env, srcRef, srcAuth, Tail(tags)),
                     LAMBDA rest : [w |-> rest.w, err |-> r.err \/ rest.err]))

\* the pull loop of Sync over the tag filter: stops at the first error
RECURSIVE pullTags(_, _, _, _, _)
pullTags(w, env, srcRef, srcAuth, tags) ==
    IF tags = <<>> THEN [w |-> w, err |-> FALSE]
    ELSE Bind(pull(w, env, Tagged(srcRef, Head(tags)), srcAuth, FALSE),
              LAMBDA r :
                IF r.err THEN r
                ELSE pullTags(r.w, env, srcRef, srcAuth, Tail(tags)))

\* listTags giving up the remaining tags at the first list call that fails
RECURSIVE listTagsStopOnError(_, _, _, _, _)
listTagsStopOnError(w, env, srcRef, tags, images) ==
    IF tags = <<>> THEN [w |-> w, images |-> images]
    ELSE Bind(list(w, env, Tagged(srcRef, Head(tags))),
              LAMBDA r :
                IF r.err THEN [w |-> r.w, images |-> images]
                ELSE listTagsStopOnError(r.w, env, srcRef, Tail(tags),
                                         images \o r.images))

\* the list loop of Sync over the tag filter: errors are logged only
RECURSIVE listTags(_, _, _, _, _)
listTags(w, env, srcRef, tags, images) ==
    IF tags = <<>> THEN [w |-> w, images |-> images]
    ELSE Bind(list(w, env, Tagged(srcRef, Head(tags))),
              LAMBDA r :
                listTags(r.w, env, srcRef, Tail(tags), images \o r.images))

\* pullPhase pulling all tags whatever the filter
pullPhaseAllTags(w, env, srcRef, srcAuth, tags) ==
    pull(w, env, srcRef, srcAuth, TRUE)

pullPhase(w, env, srcRef, srcAuth, tags) ==
    IF Len(tags) = 0 THEN pull(w, env, srcRef, srcAuth, TRUE)
    ELSE pullTags(w, env, srcRef, srcAuth, tags)

listPhase(w, env, srcRef, tags) ==
    IF Len(tags) = 0
    THEN Bind(list(w, env, srcRef),
              LAMBDA r : [w |-> r.w, images |-> r.images])
    ELSE listTags(w, env, srcRef, tags, <<>>)

\* tagPhase dropping the error of the push
tagPhaseIgnorePush(w, env, images, trgtRef, trgtAuth) ==
    Bind(tag(w, env, images, trgtRef),
         LAMBDA t :
           IF t.err THEN [w |-> t.w, err |-> "tag"]
           ELSE [w |-> push(t.w, env, trgtRef, trgtAuth).w, err |-> "nil"])

\* tagPhase pushing although a tag operation failed
tagPhasePushAnyway(w, env, images, trgtRef, trgtAuth) ==
    Bind(tag(w, env, images, trgtRef),
         LAMBDA t :
           Bind(push(t.w, env, trgtRef, trgtAuth),
                LAMBDA p :
                  IF t.err THEN [w |-> p.w, err |-> "tag"]
                  ELSE IF p.err THEN [w |-> p.w, err |-> "push"]
                  ELSE [w |-> p.w, err |-> "nil"]))

\* tagPhase returning at once when there is no image to tag
tagPhaseSkipEmpty(w, env, images, trgtRef, trgtAuth) ==
    IF images = <<>> THEN [w |-> w, err |-> "nil"]
    ELSE Bind(tag(w, env, images, trgtRef),
              LAMBDA t :
                IF t.err THEN [w |-> t.w, err |-> "tag"]
                ELSE Bind(push(t.w, env, trgtRef, trgtAuth),
                          LAMBDA p :
                            IF p.err THEN [w |-> p.w, err |-> "push"]
                            ELSE [w |-> p.w, err |-> "nil"]))

\* tagPhase pushing the target reference before the tags are set
tagPhasePushFirst(w, env, images, trgtRef, trgtAuth) ==
    Bind(push(w, env, trgtRef, trgtAuth),
         LAMBDA p :
           Bind(tag(p.w, env, images, trgtRef),
                LAMBDA t :
                  IF t.err THEN [w |-> t.w, err |-> "tag"]
                  ELSE IF p.err THEN [w |-> t.w, err |-> "push"]
                  ELSE [w |-> t.w, err |-> "nil"]))

tagPhase(w, env, images, trgtRef, trgtAuth) ==
    Bind(tag(w, env, images, trgtRef),
         LAMBDA t :
           IF t.err THEN [w |-> t.w, err |-> "tag"]
           ELSE Bind(push(t.w, env, trgtRef, trgtAuth),
                     LAMBDA p :
                       IF p.err THEN [w |-> p.w, err |-> "push"]
                       ELSE [w |-> p.w, err |-> "nil"]))

\* Sync.Sync: the returned error is "nil" or names the step that failed
Sync(w, env, srcRef, srcAuth, trgtRef, trgtAuth, tags) ==
    Bind(pullPhase(w, env, srcRef, srcAuth, tags),
         LAMBDA p :
           IF p.err THEN [w |-> p.w, err |-> "pull"]
           ELSE Bind(listPhase(p.w, env, srcRef, tags),
                     LAMBDA l :
                       tagPhase(l.w, env, l.images, trgtRef, trgtAuth)))

(***************************************************************************)
(* Configuration: tasks, locations and mappings.                           *)
(***************************************************************************)
Loc(registry, managed) == [Registry |-> registry, Managed |-> managed]

Mapping(from, to, tags) == [From |-> from, To |-> to, Tags |-> tags]

Task(name, source, target, mappings, interval) ==
    [Name |-> name, Source |-> source, Target |-> target,
     Mappings |-> mappings, Interval |-> interval, Verbose |-> FALSE]

MapA == Mapping("a", "a", <<>>)
MapB == Mapping("b", "b", <<"t1", "t2">>)
MapB1 == Mapping("b", "b", <<"t1">>)

TaskOne == Task("one", Loc("src", FALSE), Loc("trg", FALSE), <<MapA, MapB>>, 0)
TaskTwo == Task("two", Loc("src", FALSE), Loc("trg", FALSE), <<MapB1>>, 0)
TaskFast == Task("fast", Loc("src", FALSE), Loc("trg", TRUE), <<MapA>>, 1)
TaskSlow == Task("slow", Loc("src", FALSE), Loc("trg", FALSE), <<MapB1>>, 5)
TaskNeg == Task("neg", Loc("src", FALSE), Loc("trg", FALSE), <<MapA>>, -1)
TaskMid == Task("mid", Loc("src", FALSE), Loc("trg", FALSE), <<MapA>>, 2)
TaskAuth == Task("auth", Loc("src", TRUE), Loc("trg", TRUE), <<MapA, MapB1>>, 0)

Configs ==
    { <<>>,
      <<TaskOne, TaskTwo>>,
      <<TaskFast, TaskOne, TaskSlow>>,
      <<TaskOne, TaskFast, TaskTwo>>,
      <<TaskNeg, TaskTwo>>,
      <<TaskNeg>>,
      <<TaskAuth>> }

\* task.mappingRefs: the source and target reference of a mapping
mappingRefs(t, m) ==
    [src  |-> MkRef(t.Source.Registry, m.From),
     trgt |-> MkRef(t.Target.Registry, m.To)]

\* Location.refreshAuth: the possible outcomes for a location holding credential a
refreshAuth(loc, a) ==
    IF ~loc.Managed THEN {[err |-> FALSE, auth |-> a]}
    ELSE {[err |-> TRUE, auth |-> a]}
         \cup {[err |-> FALSE, auth |-> k] : k \in 1..MaxTok}

\* task.ensureTargetExists: the possible outcomes (TRUE: an error)
ensureTargetExists(t, trgt) ==
    IF t.Target.Managed THEN {TRUE, FALSE} ELSE {FALSE}

\* the first range loop taking every task that is not recurring
IsOneOffOrNegative(t) == t.Interval <= 0

\* the conditions of the two range loops of SyncFromConfig
IsOneOff(t) == t.Interval = 0

IsRecurringOrOneOff(t) == t.Interval >= 0

IsRecurring(t) == t.Interval > 0

HasRecurring == \E k \in 1..Len(conf) : conf[k].Interval > 0

\* ticking after the body of the second range loop ran for task t
TickingAlways(tk, t) == TRUE

TickingAfter(tk, t) == IF IsRecurring(t) THEN TRUE ELSE tk

\* make(chan *task): the capacity of channel c
ChanCapBuffered == 1 + 1

ChanCap == 0

(***************************************************************************)
(* The environment.                                                        *)
(***************************************************************************)
EmptyStore == [n \in Names |-> NoID]

EmptyRegistry == [n \in TrgNames |-> NoID]

\* the source registry at the start: tag t2 of src/a is absent or on any image
SrcWorlds ==
    {s \in [SrcNames -> {NoID} \cup IDs] :
        /\ s[Tagged(MkRef("src", "b"), "t1")] = "i1"
        /\ s[Tagged(MkRef("src", "b"), "t2")] = "i2"
        /\ s[Tagged(MkRef("src", "a"), "t1")] = "i1"}

SrcWorld0 ==
    [n \in SrcNames |-> IF n[5] = "t1" THEN "i1" ELSE "i2"]

PipeSrcRef == MkRef("src", "a")
PipeTrgRef == MkRef("trg", "a")

PipeFaultKeys ==
    {<<"pull", r>> : r \in {PipeSrcRef, Tagged(PipeSrcRef, "t1")}}
    \cup {<<"list", r>> : r \in {PipeSrcRef, Tagged(PipeSrcRef, "t2")}}
    \cup {<<"tag", r>> : r \in NamesOf(PipeTrgRef)}
    \cup {<<"push", PipeTrgRef>>}

SchedFaultKeys ==
    { <<"pull", MkRef("src", "a")>>,
      <<"push", MkRef("trg", "b")>> }

FaultSets(keys) == {f \in SUBSET keys : Cardinality(f) <= MaxFaults}

Filters == {<<>>, <<"t2">>, <<"t2", "t1">>}

NoSync ==
    [called |-> FALSE, srcRef |-> <<>>, trgtRef |-> <<>>, tags |-> <<>>,
     srcAuth |-> 0, trgtAuth |-> 0, err |-> "nil", calls |-> <<>>,
     preLocal |-> EmptyStore, preTrg |-> EmptyRegistry,
     postLocal |-> EmptyStore, postTrg |-> EmptyRegistry,
     src |-> SrcWorld0, faults |-> {}, again |-> FALSE]

\* the result of Sync.Sync on the current stores and environment
Result(srcRef, srcAuth, trgtRef, trgtAuth, tags) ==
    Sync([local |-> local, trg |-> trgReg, calls |-> <<>>],
         [src |-> srcReg, faults |-> faults],
         srcRef, srcAuth, trgtRef, trgtAuth, tags)

\* the stores and the record of the invocation after Sync returned r
Returned(r, srcRef, srcAuth, trgtRef, trgtAuth, tags) ==
        /\ local' = r.w.local
        /\ trgReg' = r.w.trg
        /\ last' = [called |-> TRUE, srcRef |-> srcRef, trgtRef |-> trgtRef,
                    tags |-> tags, srcAuth |-> srcAuth, trgtAuth |-> trgtAuth,
                    err |-> r.err, calls |-> r.w.calls,
                    preLocal |-> local, preTrg |-> trgReg,
                    postLocal |-> r.w.local, postTrg |-> r.w.trg,
                    src |-> srcReg, faults |-> faults,
                    again |-> /\ last.called
                              /\ last.err = "nil"
                              /\ quiet
                              /\ last.srcRef = srcRef
                              /\ last.trgtRef = trgtRef
                              /\ last.tags = tags
                              /\ last.srcAuth = srcAuth
                              /\ last.trgtAuth = trgtAuth]
        /\ quiet' = TRUE

\* one invocation of Sync.Sync on the current stores and environment
Invoke(srcRef, srcAuth, trgtRef, trgtAuth, tags) ==
    \E r \in {Result(srcRef, srcAuth, trgtRef, trgtAuth, tags)} :
        Returned(r, srcRef, srcAuth, trgtRef, trgtAuth, tags)

\* a registry call starts or stops failing
Outage ==
    /\ envSteps < MaxEnv
    /\ \E k \in PipeFaultKeys :
          /\ k \in faults \/ Cardinality(faults) < MaxFaults
          /\ faults' = IF k \in faults THEN faults \ {k} ELSE faults \cup {k}
    /\ envSteps' = envSteps + 1
    /\ quiet' = FALSE
    /\ UNCHANGED <<schedVars, auth, srcReg, trgReg, local, last,
                   runLog, steps>>

\* a tag of source repository src/a is published, moved or removed upstream
Publish ==
    /\ envSteps < MaxEnv
    /\ \E t \in Tags, id \in {NoID} \cup IDs :
          /\ srcReg[Tagged(PipeSrcRef, t)] # id
          /\ srcReg' = [srcReg EXCEPT ![Tagged(PipeSrcRef, t)] = id]
    /\ envSteps' = envSteps + 1
    /\ quiet' = FALSE
    /\ UNCHANGED <<schedVars, auth, trgReg, local, faults, last,
                   runLog, steps>>

(***************************************************************************)
(* The pipeline alone: Sync.Sync called directly, any number of times.     *)
(***************************************************************************)
CallSync ==
    /\ pc = "ext"
    /\ \E tags \in Filters : Invoke(PipeSrcRef, 0, PipeTrgRef, 0, tags)
    /\ UNCHANGED <<schedVars, auth, srcReg, faults, envSteps, runLog, steps>>

InitCommon ==
    /\ i = 1
    /\ ticking = FALSE
    /\ cur = 0
    /\ mi = 1
    /\ retpc = "none"
    /\ unit = [k \in 1..Len(conf) |-> "none"]
    /\ sendq = <<>>
    /\ buf = <<>>
    /\ running = <<>>
    /\ runs = [k \in 1..Len(conf) |-> 0]
    /\ order = <<>>
    /\ ticksIn = 0
    /\ auth = [k \in 1..Len(conf) |-> [Source |-> 0, Target |-> 0]]
    /\ pingOk = FALSE
    /\ trgReg = EmptyRegistry
    /\ local = EmptyStore
    /\ last = NoSync
    /\ quiet = FALSE
    /\ envSteps = 0
    /\ runLog = <<>>
    /\ steps = <<>>

InitPipe ==
    /\ conf = <<>>
    /\ pc = "ext"
    /\ srcReg \in SrcWorlds
    /\ faults \in FaultSets(PipeFaultKeys)
    /\ InitCommon

NextPipe == CallSync \/ Outage \/ Publish

SpecPipe == InitPipe /\ [][NextPipe]_vars

(***************************************************************************)
(* The re-tag step alone: Sync.tag called with any list of Images that     *)
(* ListImages can return for a source reference.                           *)
(***************************************************************************)
TagLists == {<<"t1">>, <<"t2">>, <<"t1", "t2">>}

SrcImages ==
    {[ID |-> id, Repo |-> PipeSrcRef[1], Path |-> PipeSrcRef[3], Tags |-> ts] :
        id \in IDs, ts \in TagLists}

\* a name of the image store denotes one image
Coherent(images) ==
    \A j, k \in 1..Len(images) :
       (\E a \in 1..Len(images[j].Tags), b \in 1..Len(images[k].Tags) :
           images[j].Tags[a] = images[k].Tags[b])
          => images[j].ID = images[k].ID

ImageLists ==
    {l \in {<<>>} \cup {<<x>> : x \in SrcImages}
            \cup {<<x, y>> : x \in SrcImages, y \in SrcImages} : Coherent(l)}

TagFaultKeys == {<<"tag", r>> : r \in NamesOf(PipeTrgRef)}

CallTag ==
    /\ pc = "tag"
    /\ \E images \in ImageLists :
          \E r \in {tag([local |-> local, trg |-> trgReg, calls |-> <<>>],
                        [src |-> srcReg, faults |-> faults],
                        images, PipeTrgRef)} :
             /\ local' = r.w.local
             /\ last' = [called |-> TRUE, trgtRef |-> PipeTrgRef,
                         images |-> images, after |-> r.images,
                         tagged |-> r.tagged, err |-> r.err,
                         calls |-> r.w.calls,
                         preLocal |-> local, postLocal |-> r.w.local]
    /\ UNCHANGED <<schedVars, auth, srcReg, trgReg, faults, quiet, envSteps,
                   runLog, steps>>

InitTag ==
    /\ conf = <<>>
    /\ pc = "tag"
    /\ srcReg = SrcWorld0
    /\ faults \in FaultSets(TagFaultKeys)
    /\ InitCommon

NextTag == CallTag

SpecTag == InitTag /\ [][NextTag]_vars

(***************************************************************************)
(* Sync.SyncTask, one Mapping per step.                                    *)
(***************************************************************************)
Min(a, b) == IF a <= b THEN a ELSE b

\* s without its first element equal to x
RECURSIVE RemoveFirst(_, _)
RemoveFirst(s, x) ==
    IF s = <<>> THEN <<>>
    ELSE IF Head(s) = x THEN Tail(s)
    ELSE <<Head(s)>> \o RemoveFirst(Tail(s), x)

\* s without its k-th element
RemoveAt(s, k) == SubSeq(s, 1, k - 1) \o SubSeq(s, k + 1, Len(s))

\* a SyncTask call begins: s.SyncTask(t), to return to position ret
StartRun(t, ret) ==
    /\ cur' = t
    /\ mi' = 1
    /\ retpc' = ret
    /\ pc' = "run"
    /\ running' = Append(running, t)
    /\ runs' = [runs EXCEPT ![t] = Min(@ + 1, 2)]
    /\ order' = IF runs[t] = 0 THEN Append(order, t) ELSE order
    /\ ticksIn' = 0
    /\ runLog' = <<>>

\* the range loop over t.Mappings ending at the first failed Mapping
NextMappingAbort(m, err, n) == IF err # "nil" THEN n + 1 ELSE m + 1

\* the range loop over t.Mappings: the next Mapping, whatever Sync returned
NextMapping(m, err, n) == m + 1

\* the steps before Sync given up at the first one that fails
MappingStepsFailFast(rs, rt, en) ==
    IF rs.err THEN << [step |-> "refreshSource", err |-> TRUE] >>
    ELSE IF rt.err THEN << [step |-> "refreshSource", err |-> FALSE],
                           [step |-> "refreshTarget", err |-> TRUE] >>
    ELSE << [step |-> "refreshSource", err |-> FALSE],
            [step |-> "refreshTarget", err |-> FALSE],
            [step |-> "ensureTargetExists", err |-> en] >>

\* the steps of a Mapping before Sync, each one's error logged only
MappingSteps(rs, rt, en) ==
    << [step |-> "refreshSource", err |-> rs.err],
       [step |-> "refreshTarget", err |-> rt.err],
       [step |-> "ensureTargetExists", err |-> en] >>

\* the credential read before the refresh of its Location
SyncAuthStale(before, after) == before

\* t.Source.Auth, t.Target.Auth: the arguments of Sync are read after the
\* refreshes and ensureTargetExists returned
SyncAuth(before, after) == after

\* the body of the range loop of SyncTask for Mapping mi
SyncTaskMapping ==
    /\ pc = "run"
    /\ mi <= Len(conf[cur].Mappings)
    /\ LET t    == conf[cur]
           m    == t.Mappings[mi]
           refs == mappingRefs(t, m)
       IN \E rs \in refreshAuth(t.Source, auth[cur].Source),
             rt \in refreshAuth(t.Target, auth[cur].Target),
             en \in ensureTargetExists(t, refs.trgt) :
          \E sa \in {SyncAuth(auth[cur].Source, rs.auth)},
             ta \in {SyncAuth(auth[cur].Target, rt.auth)} :
          \E r \in {Result(refs.src, sa, refs.trgt, ta, m.Tags)} :
             LET err == r.err
             IN /\ auth' = [auth EXCEPT ![cur] =
                               [Source |-> rs.auth, Target |-> rt.auth]]
                /\ Returned(r, refs.src, sa, refs.trgt, ta, m.Tags)
                /\ steps' = Append(MappingSteps(rs, rt, en),
                                   [step |-> "Sync", err |-> err # "nil"])
                /\ runLog' = Append(runLog,
                                    [srcRef |-> refs.src,
                                     trgtRef |-> refs.trgt,
                                     tags |-> m.Tags, err |-> err])
                /\ mi' = NextMapping(mi, err, Len(t.Mappings))
    /\ UNCHANGED <<conf, pc, i, ticking, cur, retpc, unit, sendq, buf,
                   running, runs, order, ticksIn, pingOk, srcReg, faults,
                   envSteps>>

\* SyncTask ending SyncFromConfig when one of its Mappings failed
ReturnToStopOnError(ret, log) ==
    IF \E k \in 1..Len(log) : log[k].err # "nil" THEN "done" ELSE ret

\* SyncTask has no result: its caller goes on whatever the Mappings returned
ReturnTo(ret, log) == ret

\* SyncTask returns
SyncTaskReturn ==
    /\ pc = "run"
    /\ mi > Len(conf[cur].Mappings)
    /\ pc' = ReturnTo(retpc, runLog)
    /\ running' = RemoveFirst(running, cur)
    /\ cur' = 0
    /\ ticksIn' = 0
    /\ runLog' = <<>>
    /\ steps' = <<>>
    /\ UNCHANGED <<conf, i, ticking, mi, retpc, unit, sendq, buf, runs,
                   order, auth, pingOk, srcReg, trgReg, local, faults, last,
                   quiet, envSteps>>

(***************************************************************************)
(* Sync.SyncFromConfig                                                     *)
(***************************************************************************)
\* SyncFromConfig returning when the ping failed
AfterPingFatal(ok) == IF ok THEN "oneoff" ELSE "done"

\* both branches of the ping only log and go on to the one-off tasks
AfterPing(ok) == "oneoff"

\* s.client.Ping(30, 10*time.Second): an error is logged only
Ping ==
    /\ pc = "ping"
    /\ \E ok \in BOOLEAN : pingOk' = ok /\ pc' = AfterPing(ok)
    /\ i' = 1
    /\ UNCHANGED <<conf, ticking, cur, mi, retpc, unit, sendq, buf, running,
                   runs, order, ticksIn, auth, srcReg, trgReg, local, faults,
                   last, quiet, envSteps, runLog, steps>>

\* one iteration of the range loop over the one-off tasks
OneOffPass ==
    /\ pc = "oneoff"
    /\ IF i > Len(conf)
       THEN /\ pc' = "start"
            /\ i' = 1
            /\ UNCHANGED <<cur, mi, retpc, running, runs, order, ticksIn,
                           runLog>>
       ELSE /\ i' = i + 1
            /\ IF IsOneOff(conf[i])
               THEN StartRun(i, "oneoff")
               ELSE UNCHANGED <<pc, cur, mi, retpc, running, runs, order,
                                ticksIn, runLog>>
    /\ UNCHANGED <<conf, ticking, unit, sendq, buf, auth, pingOk, srcReg,
                   trgReg, local, faults, last, quiet, envSteps, steps>>

\* one iteration of the range loop that starts the timers: t.startTicking(c)
StartTimers ==
    /\ pc = "start"
    /\ IF i > Len(conf)
       THEN /\ pc' = "loop"
            /\ UNCHANGED <<i, unit, ticking>>
       ELSE /\ i' = i + 1
            /\ pc' = pc
            /\ unit' = IF IsRecurring(conf[i])
                       THEN [unit EXCEPT ![i] = "idle"] ELSE unit
            /\ ticking' = TickingAfter(ticking, conf[i])
    /\ UNCHANGED <<conf, cur, mi, retpc, sendq, buf, running, runs, order,
                   ticksIn, auth, pingOk, srcReg, trgReg, local, faults,
                   last, quiet, envSteps, runLog, steps>>

\* a receive that serves the timer unit that blocked last
OffersNewest == IF buf # <<>> THEN {0} ELSE {Len(sendq)} \ {0}

\* the value channel c hands over: the head of its buffer or, with no
\* buffered value, that of any timer unit blocked in a send
Offers == IF buf # <<>> THEN {0} ELSE DOMAIN sendq

Taken(k) == IF k = 0 THEN Head(buf) ELSE sendq[k]

\* the channel after the receive: a blocked sender moves into the buffer
AfterReceive(k) ==
    IF k = 0
    THEN [buf   |-> Tail(buf) \o (IF sendq # <<>> THEN <<Head(sendq)>> ELSE <<>>),
          sendq |-> IF sendq # <<>> THEN Tail(sendq) ELSE <<>>,
          freed |-> IF sendq # <<>> THEN {Head(sendq)} ELSE {}]
    ELSE [buf |-> buf, sendq |-> RemoveAt(sendq, k), freed |-> {sendq[k]}]

\* the loop body run in a goroutine of its own: go s.SyncTask(<-c)
ReceiveSpawn ==
    /\ pc = "loop"
    /\ ticking
    /\ \E k \in Offers :
          /\ buf' = AfterReceive(k).buf
          /\ sendq' = AfterReceive(k).sendq
          /\ unit' = [u \in DOMAIN unit |->
                        IF u \in AfterReceive(k).freed THEN "idle" ELSE unit[u]]
          /\ running' = Append(running, Taken(k))
          /\ cur' = Taken(k)
    /\ UNCHANGED <<conf, pc, i, ticking, mi, retpc, runs, order, ticksIn,
                   auth, pingOk, srcReg, trgReg, local, faults, last, quiet,
                   envSteps, runLog, steps>>

\* the body of the loop "for ticking": s.SyncTask(<-c)
Receive ==
    /\ pc = "loop"
    /\ ticking
    /\ \E k \in Offers :
          /\ buf' = AfterReceive(k).buf
          /\ sendq' = AfterReceive(k).sendq
          /\ unit' = [u \in DOMAIN unit |->
                        IF u \in AfterReceive(k).freed THEN "idle" ELSE unit[u]]
          /\ StartRun(Taken(k), "loop")
    /\ UNCHANGED <<conf, i, ticking, auth, pingOk, srcReg, trgReg, local,
                   faults, last, quiet, envSteps, steps>>

\* the loop "for ticking" ends: "all done", return nil
LoopExit ==
    /\ pc = "loop"
    /\ ~ticking
    /\ pc' = "done"
    /\ UNCHANGED <<conf, i, ticking, cur, mi, retpc, unit, sendq, buf,
                   running, runs, order, ticksIn, auth, pingOk, srcReg,
                   trgReg, local, faults, last, quiet, envSteps, runLog,
                   steps>>

(***************************************************************************)
(* The timer unit task.startTicking(c) starts for a recurring task: on     *)
(* each tick it submits the task onto c; a tick that arrives while the     *)
(* unit is still blocked in the send of an earlier one is not queued.      *)
(***************************************************************************)
TimerTick(t) ==
    /\ unit[t] # "none"
    /\ ticksIn' = IF pc = "run" /\ cur = t
                  THEN Min(ticksIn + 1, MaxTicks)
                  ELSE ticksIn
    /\ IF unit[t] = "idle"
       THEN IF Len(buf) < ChanCap
            THEN /\ buf' = Append(buf, t)
                 /\ UNCHANGED <<unit, sendq>>
            ELSE /\ sendq' = Append(sendq, t)
                 /\ unit' = [unit EXCEPT ![t] = "sending"]
                 /\ buf' = buf
       ELSE UNCHANGED <<unit, sendq, buf>>
    /\ UNCHANGED <<conf, pc, i, ticking, cur, mi, retpc, running, runs,
                   order, auth, pingOk, srcReg, trgReg, local, faults, last,
                   quiet, envSteps, runLog, steps>>

Init ==
    /\ conf \in Configs
    /\ pc = "ping"
    /\ srcReg = SrcWorld0
    /\ faults \in FaultSets(SchedFaultKeys)
    /\ InitCommon

Main ==
    \/ Ping
    \/ OneOffPass
    \/ SyncTaskMapping
    \/ SyncTaskReturn
    \/ StartTimers
    \/ Receive
    \/ LoopExit

Next ==
    \/ Main
    \/ \E t \in DOMAIN unit : TimerTick(t)

Spec == Init /\ [][Next]_vars

\* SyncFromConfig keeps running while it has a step to take
FairSpec == Spec /\ WF_vars(Main)

\* the receive of the consumption loop taking the value of task t's unit
ReceiveOf(t) == Receive /\ cur' = t

\* two recurring tasks with a one-off task between them, or no task
LiveConfigs == {<<>>, <<TaskMid, TaskOne, TaskSlow>>}

\* the positions a task can have in a configuration
TaskIdx == UNION {DOMAIN c : c \in Configs \cup LiveConfigs}

\* moreover every timer keeps ticking, and a timer unit blocked in its send
\* is not passed over for ever by the receives of the consumption loop
InitLive ==
    /\ conf \in LiveConfigs
    /\ pc = "ping"
    /\ srcReg = SrcWorld0
    /\ faults \in FaultSets(SchedFaultKeys)
    /\ InitCommon

LiveSpec ==
    /\ InitLive
    /\ [][Next]_vars
    /\ WF_vars(Main)
    /\ \A t \in TaskIdx : WF_vars(t \in DOMAIN unit /\ TimerTick(t))
    /\ \A t \in TaskIdx : SF_vars(ReceiveOf(t))

(***************************************************************************)
(* The calls of the latest Sync invocation.                                *)
(***************************************************************************)
CallsOf(op) == LET Is(c) == c.op = op IN SelectSeq(last.calls, Is)

Failed(op) == \E k \in 1..Len(last.calls) :
                 last.calls[k].op = op /\ ~last.calls[k].ok

\* the references the pull and the list phase address, in order
PhaseRefs ==
    IF last.tags = <<>> THEN <<last.srcRef>>
    ELSE [k \in 1..Len(last.tags) |-> Tagged(last.srcRef, last.tags[k])]

RefsOf(cs) == [k \in 1..Len(cs) |-> cs[k].ref]

AllTagsFlag == last.tags = <<>>

\* the names of the target reference of the latest invocation
TargetNames == {n \in TrgNames : n[1] = last.trgtRef[1] /\ n[3] = last.trgtRef[3]}

\* C6 as stated: an empty filter causes one all-tags pull, one list call and
\* an all-tags push, a filter of n tags n pulls and n list calls, whatever
\* the outcome of the calls.
C6_CallCountsAlways ==
    last.called =>
        /\ RefsOf(CallsOf("pull")) = PhaseRefs
        /\ RefsOf(CallsOf("list")) = PhaseRefs
        /\ \A k \in 1..Len(CallsOf("pull")) :
              CallsOf("pull")[k].all = AllTagsFlag
        /\ AllTagsFlag =>
              /\ Len(CallsOf("push")) = 1
              /\ CallsOf("push")[1].all

\* C6 amended: in an invocation in which no pull fails, an empty filter
\* causes exactly one pull of srcRef with allTags = true and exactly one list
\* call on srcRef, a filter of n tags exactly n pulls (allTags = false) and n
\* list calls, one per tag on srcRef:ti in filter order; when no tag operation
\* fails either, exactly one push of the target reference with allTags = true
\* follows.  When a pull fails, the pulls issued are the first of that order.
C6_CallCounts ==
    last.called =>
        /\ Len(CallsOf("pull")) <= Len(PhaseRefs)
        /\ RefsOf(CallsOf("pull")) = SubSeq(PhaseRefs, 1, Len(CallsOf("pull")))
        /\ \A k \in 1..Len(CallsOf("pull")) :
              CallsOf("pull")[k].all = AllTagsFlag
        /\ ~Failed("pull") =>
              /\ RefsOf(CallsOf("pull")) = PhaseRefs
              /\ RefsOf(CallsOf("list")) = PhaseRefs
        /\ (~Failed("pull") /\ ~Failed("tag")) =>
              /\ Len(CallsOf("push")) = 1
              /\ CallsOf("push")[1].all
              /\ CallsOf("push")[1].ref = last.trgtRef

C6_Witness ==
    /\ last.called
    /\ last.tags = <<"t2", "t1">>
    /\ last.err = "nil"
    /\ Len(CallsOf("pull")) = 2
    /\ Len(CallsOf("list")) = 2

\* a list call that covers tag t succeeded
ListedOk(t) ==
    \E j \in 1..Len(last.calls) :
       /\ last.calls[j].op = "list"
       /\ last.calls[j].ok
       /\ last.calls[j].ref = IF AllTagsFlag THEN last.srcRef
                              ELSE Tagged(last.srcRef, t)

\* C7: Sync returns nil only if every pull, every tag operation and the push
\* completed without error; an invocation whose only failing calls are list
\* calls returns nil, and a failed list call only takes tags away from those
\* re-tagged: every tag operation is for a tag a successful list call covers.
C7_SuccessOnlyIfAllHard ==
    last.called =>
        /\ last.err = "nil" =>
              /\ ~Failed("pull") /\ ~Failed("tag") /\ ~Failed("push")
              /\ Len(CallsOf("push")) = 1
        /\ (\A k \in 1..Len(last.calls) :
               ~last.calls[k].ok => last.calls[k].op = "list")
           => last.err = "nil"
        /\ \A k \in 1..Len(last.calls) :
              last.calls[k].op = "tag" =>
                 \E t \in Tags :
                    /\ last.calls[k].ref = Tagged(last.trgtRef, t)
                    /\ last.calls[k].id = last.postLocal[Tagged(last.srcRef, t)]
                    /\ ListedOk(t)

C7_Witness ==
    /\ last.called
    /\ Failed("list")
    /\ last.err = "nil"
    /\ \E n \in TargetNames : last.postTrg[n] # last.preTrg[n]

\* C8: when a pull fails, Sync returns an error at once: the failed pull is
\* the last registry call of the invocation (no further pull, no list, tag or
\* push), and the target names of the image store and the target registry
\* are as they were before the call.
C8_PullFailureStops ==
    (last.called /\ Failed("pull")) =>
        /\ last.err = "pull"
        /\ ~last.calls[Len(last.calls)].ok
        /\ \A k \in 1..Len(last.calls) :
              /\ last.calls[k].op = "pull"
              /\ ~last.calls[k].ok => k = Len(last.calls)
        /\ last.postTrg = last.preTrg
        /\ \A n \in TrgNames : last.postLocal[n] = last.preLocal[n]

C8_Witness ==
    /\ last.called
    /\ Len(last.tags) = 2
    /\ Len(last.calls) = 1
    /\ ~last.calls[1].ok
    /\ \E n \in TargetNames : last.preTrg[n] # NoID

\* C9 as stated: when a tag operation fails, Sync returns an error, issues no
\* push, and no target tag created earlier in that invocation remains.
C9_TagAllOrNothing ==
    (last.called /\ Failed("tag")) =>
        /\ last.err # "nil"
        /\ CallsOf("push") = <<>>
        /\ last.postTrg = last.preTrg
        /\ \A n \in TrgNames : last.postLocal[n] = last.preLocal[n]

\* C9 amended: when a tag operation fails, Sync returns an error at once and
\* issues no push, so that call transmits nothing to the target registry;
\* the target tags created earlier in the invocation are not rolled back:
\* they stay in the daemon's image store, and every successful push
\* transmits all the tags the store holds for the target reference, those
\* left by earlier invocations included.
C9_TagFailureNoPush ==
    /\ (last.called /\ Failed("tag")) =>
          /\ last.err = "tag"
          /\ CallsOf("push") = <<>>
          /\ last.calls[Len(last.calls)].op = "tag"
          /\ \A k \in 1..Len(last.calls) :
                ~last.calls[k].ok /\ last.calls[k].op = "tag"
                   => k = Len(last.calls)
          /\ last.postTrg = last.preTrg
          /\ \A k \in 1..Len(last.calls) :
                (last.calls[k].op = "tag" /\ last.calls[k].ok)
                   => last.postLocal[last.calls[k].ref] = last.calls[k].id
    /\ (last.called /\ last.err = "nil") =>
          \A n \in TargetNames :
             last.preLocal[n] # NoID => last.postTrg[n] = last.postLocal[n]

C9_Witness ==
    /\ last.called
    /\ last.err = "tag"
    /\ \E k \in 1..Len(last.calls) :
          /\ last.calls[k].op = "tag"
          /\ last.calls[k].ok
          /\ last.preLocal[last.calls[k].ref] = NoID
          /\ last.postLocal[last.calls[k].ref] # NoID

\* C10: a Sync invocation that repeats the previous one (same references,
\* credentials and filter), which returned nil, with no change of the
\* environment in between, returns nil too and leaves the target registry as
\* the first call left it.
C10_Idempotent ==
    (last.called /\ last.again) =>
        /\ last.err = "nil"
        /\ last.postTrg = last.preTrg

C10_Witness ==
    /\ last.called
    /\ last.again
    /\ last.err = "nil"
    /\ Cardinality({n \in TargetNames : last.postTrg[n] # NoID}) = 2

(***************************************************************************)
(* The scheduler's claims.                                                 *)
(***************************************************************************)
OneOffIdx == {k \in 1..Len(conf) : conf[k].Interval = 0}

\* the one-off tasks in configuration order
OneOffSeq == SetToSeq(OneOffIdx)

\* a timer has been started, or the loop that services ticks was entered
TimersOrTicks ==
    \/ \E k \in DOMAIN unit : unit[k] # "none"
    \/ sendq # <<>>
    \/ buf # <<>>
    \/ pc \in {"loop", "done"}
    \/ (pc = "run" /\ retpc = "loop")

InProgress(k) == \E j \in 1..Len(running) : running[j] = k

\* C1: every task with Interval = 0 is executed at most once, the one-off
\* tasks are executed in configuration order before any other task, and once
\* a timer is started or the tick loop is entered each of them has been
\* executed exactly once and has finished.
C1_OneOffOnceFirst ==
    /\ \A k \in OneOffIdx : runs[k] <= 1
    /\ Len(order) <= Len(OneOffSeq)
          => order = SubSeq(OneOffSeq, 1, Len(order))
    /\ Len(order) > Len(OneOffSeq)
          => SubSeq(order, 1, Len(OneOffSeq)) = OneOffSeq
    /\ TimersOrTicks =>
          /\ Len(order) >= Len(OneOffSeq)
          /\ \A k \in OneOffIdx : runs[k] = 1 /\ ~InProgress(k)

C1_Witness ==
    /\ pc = "run"
    /\ retpc = "loop"
    /\ Len(OneOffSeq) = 2
    /\ order = OneOffSeq \o <<cur>>
    /\ OneOffSeq[1] < cur
    /\ cur < OneOffSeq[2]

\* C2: at most one SyncTask execution is in progress at any time, and it is
\* the one SyncFromConfig itself is in.
C2_OneTaskAtATime ==
    /\ Len(running) <= 1
    /\ running # <<>> => (pc = "run" /\ running = <<cur>>)
    /\ pc = "run" => running = <<cur>>

C2_Witness ==
    /\ pc = "run"
    /\ running = <<cur>>
    /\ Len(sendq) = 2
    /\ sendq[1] # sendq[2]

\* submitted, not yet started runs of task t
Pending(t) ==
    Cardinality({k \in DOMAIN sendq : sendq[k] = t})
    + Cardinality({k \in DOMAIN buf : buf[k] = t})

\* C3: no task ever has more than one pending run, however many ticks of
\* its timer fire while a task is running.
C3_OnePendingRun == \A t \in 1..Len(conf) : Pending(t) <= 1

C3_Witness ==
    /\ pc = "run"
    /\ ticksIn = 4
    /\ Pending(cur) = 1
    /\ Len(sendq) = 1

\* C4: SyncFromConfig reaches "all done" only with no task of Interval > 0
\* configured, and with none configured it does reach it.
C4_TerminatesIffNoRecurring ==
    /\ [](pc = "done" => ~HasRecurring)
    /\ (~HasRecurring) ~> (pc = "done")

C4_Witness ==
    /\ pc = "done"
    /\ Len(conf) = 2
    /\ \A k \in 1..Len(conf) : runs[k] = 1

AllCallsOk == \A k \in 1..Len(last.calls) : last.calls[k].ok

\* the tags a Sync invocation is to bring to the target: those of the filter,
\* or with an empty filter all those the source repository holds
WantedTags ==
    {t \in Tags :
        /\ last.tags # <<>> => \E k \in 1..Len(last.tags) : last.tags[k] = t
        /\ last.src[Tagged(last.srcRef, t)] # NoID}

\* C5: in a SyncTask run Sync is invoked for the Mappings one by one in list
\* order, for every Mapping whatever the earlier ones returned, and a Mapping
\* whose calls all succeed leaves its tags in the target registry.
C5_MappingsIsolated ==
    pc = "run" =>
        /\ mi <= Len(conf[cur].Mappings) + 1
        /\ Len(runLog) = mi - 1
        /\ \A k \in 1..Len(runLog) :
              LET refs == mappingRefs(conf[cur], conf[cur].Mappings[k])
              IN /\ runLog[k].srcRef = refs.src
                 /\ runLog[k].trgtRef = refs.trgt
                 /\ runLog[k].tags = conf[cur].Mappings[k].Tags
        /\ (mi > 1 /\ AllCallsOk) =>
              /\ last.err = "nil"
              /\ \A t \in WantedTags :
                    trgReg[Tagged(last.trgtRef, t)]
                       = last.src[Tagged(last.srcRef, t)]

C5_Witness ==
    /\ pc = "run"
    /\ Len(runLog) = 2
    /\ runLog[1].err # "nil"
    /\ runLog[2].err = "nil"
    /\ AllCallsOk
    /\ WantedTags = {"t1", "t2"}
    /\ trgReg[Tagged(MkRef("trg", "b"), "t1")] = "i1"
    /\ trgReg[Tagged(MkRef("trg", "b"), "t2")] = "i2"
    /\ trgReg[Tagged(MkRef("trg", "a"), "t1")] = NoID

(***************************************************************************)
(* Failures of tasks and of steps.                                         *)
(***************************************************************************)
\* C11: a task run never stops the scheduler, whatever its Mappings
\* returned: when SyncTask returns, SyncFromConfig is back in the loop that
\* called it (the one-off pass at its next task, or the consumption loop
\* with the submitted ticks still waiting), and "all done" is reached only
\* with no recurring task and after every one-off task ran once.
C11_FailureNeverStops ==
    /\ [](pc = "done" =>
            /\ ~HasRecurring
            /\ \A k \in 1..Len(conf) : IsOneOff(conf[k]) => runs[k] = 1)
    /\ [][(pc = "run" /\ pc' # "run") =>
            /\ pc' = retpc
            /\ pc' \in {"oneoff", "loop"}
            /\ i' = i
            /\ ticking' = ticking
            /\ <<unit, sendq, buf>>' = <<unit, sendq, buf>>]_vars

\* the second one-off task runs after the first one had a failing Mapping
C11_Witness ==
    /\ pc = "run"
    /\ retpc = "oneoff"
    /\ cur = 2
    /\ runs[1] = 1
    /\ runLog = <<>>
    /\ last.called
    /\ last.err # "nil"

\* the names of the steps of the latest Mapping, in the order taken
StepNames == [k \in 1..Len(steps) |-> steps[k].step]

\* C12: in every Mapping of a SyncTask run the steps are, in this order, the
\* refresh of the Source credential, the refresh of the Target credential,
\* ensureTargetExists and Sync, all four taken whichever of the first three
\* failed, and Sync is invoked with the references and tags of that Mapping.
C12_StepsInOrder ==
    (pc = "run" /\ mi > 1) =>
        /\ StepNames = <<"refreshSource", "refreshTarget",
                         "ensureTargetExists", "Sync">>
        /\ Len(runLog) = mi - 1
        /\ last.called
        /\ LET refs == mappingRefs(conf[cur], conf[cur].Mappings[mi - 1])
           IN /\ last.srcRef = refs.src
              /\ last.trgtRef = refs.trgt
              /\ last.tags = conf[cur].Mappings[mi - 1].Tags
        /\ steps[4].err = (last.err # "nil")

\* both refreshes and ensureTargetExists failed and Sync ran and succeeded
C12_Witness ==
    /\ pc = "run"
    /\ mi > 1
    /\ steps[1].err
    /\ steps[2].err
    /\ steps[3].err
    /\ steps[4].step = "Sync"
    /\ last.err = "nil"
    /\ mi = 3

(***************************************************************************)
(* The phases of Sync.Sync.                                                *)
(***************************************************************************)
PhaseOrder == <<"pull", "list", "tag", "push">>

\* the position of the phase a registry call belongs to
PhaseOf(op) == CHOOSE k \in 1..Len(PhaseOrder) : PhaseOrder[k] = op

\* C13: the registry calls of one Sync invocation are made one after the
\* other in phases: every pull before every list call, every list call
\* before every tag operation, every tag operation before the push; there is
\* never more than one push, and an invocation without a failed pull or tag
\* operation ends with exactly one push, all-tags, of the target reference.
C13_Phased ==
    last.called =>
        /\ \A j, k \in 1..Len(last.calls) :
              j < k => PhaseOf(last.calls[j].op) <= PhaseOf(last.calls[k].op)
        /\ Len(CallsOf("push")) <= 1
        /\ (~Failed("pull") /\ ~Failed("tag")) =>
              /\ Len(CallsOf("push")) = 1
              /\ last.calls[Len(last.calls)].op = "push"
              /\ last.calls[Len(last.calls)].all
              /\ last.calls[Len(last.calls)].ref = last.trgtRef

\* two pulls, two list calls, two tag operations and the push
C13_Witness ==
    /\ last.called
    /\ last.err = "nil"
    /\ [k \in 1..Len(last.calls) |-> last.calls[k].op]
          = <<"pull", "pull", "list", "list", "tag", "tag", "push">>

\* tag t is asked for by the invocation: by its filter, or by an empty one
Asked(t) == AllTagsFlag \/ \E k \in 1..Len(last.tags) : last.tags[k] = t

\* the tag operation of the invocation for target tag t, if any
TaggedTo(t) ==
    \E k \in 1..Len(last.calls) :
       /\ last.calls[k].op = "tag"
       /\ last.calls[k].ref = Tagged(last.trgtRef, t)

\* C14: a failed list call does not end Sync: after the pulls succeeded,
\* every list call of the invocation is made, the failed ones included;
\* when no tag operation fails, the tags re-tagged are exactly the asked
\* tags held after the pull that a successful list call covers, the push is
\* issued, and a successful push puts each of them in the target registry.
C14_ListFailureTolerated ==
    (last.called /\ ~Failed("pull")) =>
        /\ RefsOf(CallsOf("list")) = PhaseRefs
        /\ ~Failed("tag") =>
              /\ Len(CallsOf("push")) = 1
              /\ \A t \in Tags :
                    TaggedTo(t) <=>
                       /\ Asked(t)
                       /\ ListedOk(t)
                       /\ last.postLocal[Tagged(last.srcRef, t)] # NoID
              /\ last.err = "nil" =>
                    \A t \in Tags :
                       TaggedTo(t) =>
                          last.postTrg[Tagged(last.trgtRef, t)]
                             = last.postLocal[Tagged(last.srcRef, t)]

\* the list call for t2 failed, the one for t1 was still made, and t1 alone
\* was re-tagged and pushed
C14_Witness ==
    /\ last.called
    /\ last.tags = <<"t2", "t1">>
    /\ last.err = "nil"
    /\ ~CallsOf("list")[1].ok
    /\ CallsOf("list")[2].ok
    /\ TaggedTo("t1")
    /\ ~TaggedTo("t2")
    /\ last.postTrg[Tagged(last.trgtRef, "t1")] # NoID
    /\ last.postTrg[Tagged(last.trgtRef, "t2")] = NoID

(***************************************************************************)
(* The re-tag step.                                                        *)
(***************************************************************************)
\* one tag operation per tag of each image, in the order of the list
RECURSIVE OpsFor(_, _)
OpsFor(images, ref) ==
    IF images = <<>> THEN <<>>
    ELSE [k \in 1..Len(Head(images).Tags) |->
            [ref |-> Tagged(ref, Head(images).Tags[k]), id |-> Head(images).ID]]
         \o OpsFor(Tail(images), ref)

OpsIssued == [k \in 1..Len(last.calls) |->
                [ref |-> last.calls[k].ref, id |-> last.calls[k].id]]

\* C15: Sync.tag issues, for every image of its list and every tag on it,
\* in order, exactly one tag operation that binds targetRepo/targetPath:tag
\* (the split of the target reference) to the image's content identifier,
\* up to the first that fails.  When none fails the names bound are those
\* of the union of the images' tags, each held by the store with the
\* identifier of its image, the Images returned are the given ones moved to
\* targetRepo/targetPath, and the given Image values are unchanged.
C15_Retag ==
    last.called =>
        LET target   == SplitRef(last.trgtRef)
            expected == OpsFor(last.images, <<target.repo, "/", target.path>>)
        IN /\ \A k \in 1..Len(last.calls) : last.calls[k].op = "tag"
           /\ Len(OpsIssued) <= Len(expected)
           /\ OpsIssued = SubSeq(expected, 1, Len(OpsIssued))
           /\ last.after = last.images
           /\ last.err => /\ ~last.calls[Len(last.calls)].ok
                          /\ last.tagged = <<>>
           /\ ~last.err =>
                 /\ OpsIssued = expected
                 /\ {OpsIssued[k].ref : k \in 1..Len(OpsIssued)}
                      = {Tagged(last.trgtRef, t) : t \in
                           UNION {{last.images[j].Tags[a] :
                                     a \in 1..Len(last.images[j].Tags)} :
                                  j \in 1..Len(last.images)}}
                 /\ \A k \in 1..Len(OpsIssued) :
                       last.postLocal[OpsIssued[k].ref] = OpsIssued[k].id
                 /\ last.tagged =
                       [j \in 1..Len(last.images) |->
                          [ID |-> last.images[j].ID, Repo |-> target.repo,
                           Path |-> target.path, Tags |-> last.images[j].Tags]]

\* two images, one with two tags, all three tag operations done
C15_Witness ==
    /\ last.called
    /\ pc = "tag"
    /\ ~last.err
    /\ Len(last.images) = 2
    /\ Len(last.calls) = 3
    /\ last.postLocal # last.preLocal

\* tag t is on an image the list phase of the invocation enumerated
Enumerated(t) ==
    /\ Asked(t)
    /\ ListedOk(t)
    /\ last.postLocal[Tagged(last.srcRef, t)] # NoID

\* C16: when the pulls succeeded and the list phase enumerated no image
\* (nothing to list, or every list call failed), Sync issues no tag
\* operation, still pushes the target reference, once and as its last call,
\* and returns nil if that push succeeded and its error if not.
C16_EmptyListPushes ==
    (last.called /\ ~Failed("pull") /\ \A t \in Tags : ~Enumerated(t)) =>
        /\ CallsOf("tag") = <<>>
        /\ Len(CallsOf("push")) = 1
        /\ last.calls[Len(last.calls)].op = "push"
        /\ last.calls[Len(last.calls)].ref = last.trgtRef
        /\ last.err = IF last.calls[Len(last.calls)].ok THEN "nil" ELSE "push"
        /\ \A n \in TrgNames : last.postLocal[n] = last.preLocal[n]

\* the image was pulled, its list call failed, nothing was tagged, the push
\* was made
C16_Witness ==
    /\ last.called
    /\ ~Failed("pull")
    /\ Failed("list")
    /\ \A t \in Tags : ~Enumerated(t)
    /\ \E t \in Tags : last.postLocal[Tagged(last.srcRef, t)] # NoID
    /\ CallsOf("tag") = <<>>
    /\ Len(CallsOf("push")) = 1
    /\ last.err = "nil"

(***************************************************************************)
(* Ticks and starvation.                                                   *)
(***************************************************************************)
\* task t has a timer, and SyncFromConfig is in its consumption loop
Recurring(t) == t \in DOMAIN unit /\ unit[t] # "none"

Started(t) == pc = "run" /\ cur = t /\ mi = 1

\* C17: a tick submitted for a recurring task is not lost, whether a task
\* was running when it arrived or not: its timer unit stays blocked in the
\* send until a run of that very task starts; and every recurring task is
\* started again and again, whatever the other recurring tasks do.
C17_NoStarvation ==
    /\ [][\A t \in DOMAIN unit :
            (unit[t] = "sending" /\ unit'[t] # "sending")
               => (pc' = "run" /\ cur' = t /\ mi' = 1)]_vars
    /\ \A t \in TaskIdx : []<>(Recurring(t) => Started(t))

\* a tick of the third task waits while the first runs for the second time
C17_Witness ==
    /\ Len(conf) = 3
    /\ pc = "run"
    /\ cur = 1
    /\ runs[1] = 2
    /\ unit[3] = "sending"
    /\ unit[1] = "sending"

(***************************************************************************)
(* The initial ping.                                                       *)
(***************************************************************************)
\* SyncFromConfig is in, or in a run called from, its consumption loop
InLoop == pc = "loop" \/ (pc = "run" /\ retpc = "loop")

\* C18: after a failed ping SyncFromConfig goes on as after a successful
\* one: the one-off pass begins at the first task, every one-off task has
\* run once when the pass is over, every recurring task (and no other) has
\* its timer when the consumption loop is entered, and "all done" is reached
\* only with no recurring task.
C18_PingNonFatal ==
    /\ [][pc = "ping" => (pc' = "oneoff" /\ i' = 1)]_vars
    /\ []((pc # "ping" /\ ~pingOk) =>
            /\ (pc \in {"start", "loop", "done"} \/ InLoop) =>
                  \A k \in 1..Len(conf) : IsOneOff(conf[k]) => runs[k] = 1
            /\ InLoop =>
                  /\ ticking = HasRecurring
                  /\ \A k \in 1..Len(conf) :
                        IsRecurring(conf[k]) <=> unit[k] # "none"
            /\ pc = "done" => ~HasRecurring)

\* the ping failed, the one-off task has run and a recurring task is running
C18_Witness ==
    /\ ~pingOk
    /\ pc = "run"
    /\ retpc = "loop"
    /\ \E k \in 1..Len(conf) : IsOneOff(conf[k]) /\ runs[k] = 1
    /\ last.called

(***************************************************************************)
(* Credentials.                                                            *)
(***************************************************************************)
\* the step of SyncTask for one Mapping has just been taken
MappingDone == pc = "run" /\ mi' > mi

\* C19: Sync gets the credentials of the two Locations as they stand after
\* the two refreshes of that Mapping: a failed refresh leaves the credential
\* the Location had, a successful one of a managed Location gives a newly
\* issued one; every pull of the invocation carries the Source credential,
\* the push the Target credential, and list calls and tag operations none.
C19_Credentials ==
    /\ [][MappingDone =>
            /\ last'.srcAuth = auth'[cur].Source
            /\ last'.trgtAuth = auth'[cur].Target
            /\ steps'[1].err => auth'[cur].Source = auth[cur].Source
            /\ steps'[2].err => auth'[cur].Target = auth[cur].Target
            /\ (~steps'[1].err /\ conf[cur].Source.Managed)
                  => auth'[cur].Source \in 1..MaxTok
            /\ (~steps'[2].err /\ conf[cur].Target.Managed)
                  => auth'[cur].Target \in 1..MaxTok]_vars
    /\ [](last.called =>
            \A k \in 1..Len(last.calls) :
               last.calls[k].auth =
                  IF last.calls[k].op = "pull" THEN last.srcAuth
                  ELSE IF last.calls[k].op = "push" THEN last.trgtAuth
                  ELSE 0)

\* the second Mapping of a task: the Source refresh failed and the pull
\* carried the credential issued for the first Mapping, the Target refresh
\* never succeeded and the push carried the empty credential
C19_Witness ==
    /\ pc = "run"
    /\ mi = 3
    /\ steps[1].err
    /\ steps[2].err
    /\ last.srcAuth = 1
    /\ last.trgtAuth = 0
    /\ \E k \in 1..Len(last.calls) :
          last.calls[k].op = "pull" /\ last.calls[k].auth = 1
    /\ \E k \in 1..Len(last.calls) :
          last.calls[k].op = "push" /\ last.calls[k].auth = 0

(***************************************************************************)
(* Tasks with a negative Interval.                                         *)
(***************************************************************************)
AllNegative == Len(conf) > 0 /\ \A k \in 1..Len(conf) : conf[k].Interval < 0

\* C20: a task with a negative Interval is never executed and never gets a
\* timer, and it does not keep the consumption loop going: a configuration
\* of such tasks only reaches "all done", with no task run at all.
C20_NegativeInterval ==
    /\ [](\A k \in 1..Len(conf) :
            conf[k].Interval < 0 =>
               /\ runs[k] = 0
               /\ unit[k] = "none"
               /\ ~InProgress(k)
               /\ cur # k)
    /\ [](AllNegative => (~ticking /\ pc # "run" /\ ~last.called))
    /\ AllNegative ~> (pc = "done")

\* the task with the negative Interval was passed over, the one-off task
\* after it ran, and SyncFromConfig returned
C20_Witness ==
    /\ Len(conf) = 2
    /\ conf[1].Interval < 0
    /\ runs[1] = 0
    /\ runs[2] = 1
    /\ pc = "done"

====
